---------------------------- MODULE Spec2Model ----------------------------
(***************************************************************************)
(* A model of moosegesture.py (MooseGesture 0.1.4): the stroke segmenter   *)
(* (_identifyStrokes, _getDirection, getAngle, _getDistance), the two      *)
(* configuration scalars (setMinStrokeLen) and the gesture matcher         *)
(* (findClosestMatchingGesture, levenshteinDistance).                      *)
(*                                                                         *)
(* Indices are Python's: a list of n elements has indices 0..n-1, and the  *)
(* operator At reads one.  Angles are kept in half-sector units, see       *)
(* getAngle.  Python's None is the value None below.                       *)
(***************************************************************************)
EXTENDS Integers, Sequences, FiniteSets

VARIABLES
    _MIN_SEG_LEN,       \* module global, line 86
    _MIN_P2P_DISTANCE,  \* module global, line 88
    pc,                 \* where the caller is: "idle", "segmenting", "returned", ...
    points,             \* the points argument of _identifyStrokes
    mode,               \* the mode argument of _identifyStrokes
    strokes,            \* local of _identifyStrokes
    strokeSegments,     \* local of _identifyStrokes: a list of [start, end]
    distances,          \* local of _identifyStrokes
    startSegPoint,      \* the next value of the outer loop variable
    curSegPoint,        \* locals as the last outer iteration left them
    curDir,
    consistent,
    direction,
    reads,              \* the index pairs the last iteration passed to _getDirection
    dirArgs,            \* a direct call of _getDirection: <<pos1, pos2, mode>>
    dirResult,          \* and what it returned
    levArgs,            \* a direct call of levenshteinDistance: <<s1, s2>>
    levResult,
    matchArgs,          \* a call of findClosestMatchingGesture
    matchResult

vars == <<_MIN_SEG_LEN, _MIN_P2P_DISTANCE, pc, points, mode, strokes,
          strokeSegments, distances, startSegPoint, curSegPoint, curDir, consistent,
          direction, reads, dirArgs, dirResult, levArgs, levResult,
          matchArgs, matchResult>>

cfgVars == <<_MIN_SEG_LEN, _MIN_P2P_DISTANCE>>
segVars == <<points, mode, strokes, strokeSegments, distances, startSegPoint,
             curSegPoint, curDir, consistent, direction, reads>>
dirVars == <<dirArgs, dirResult>>
levVars == <<levArgs, levResult>>
matchVars == <<matchArgs, matchResult>>

(***************************************************************************)
(* Bounds of the model.                                                    *)
(***************************************************************************)
\* the longest point list drawn step by step
MaxPoints == 4
\* _getDirection is called directly on points of the grid -MaxCoord..MaxCoord
MaxCoord == 3
\* setMinStrokeLen is called alone with every value in -MaxVal..MaxVal
MaxVal == 70
\* an L-shape has at most MaxLegSteps steps on each leg
MaxLegSteps == 7
\* the longest token sequence given to levenshteinDistance
MaxLevLen == 3
\* the longest gesture and the most templates given to the matcher
MaxGestureLen == 2
MaxTemplates == 2
\* the largest finite tolerance given to the matcher
MaxTolerance == 2

(***************************************************************************)
(* Python values.                                                          *)
(***************************************************************************)
\* None, as the locals curDir and direction hold it and as _getDirection
\* would return it by falling off its end; no direction token is 0
None == 0

At(list, i) == list[i + 1]

Abs(n) == IF n < 0 THEN -n ELSE n

Min(S) == CHOOSE m \in S : \A n \in S : m <= n

(***************************************************************************)
(* Direction tokens, lines 94-101.                                         *)
(***************************************************************************)
DOWNLEFT == 1
DOWN == 2
DOWNRIGHT == 3
LEFT == 4
RIGHT == 6
UPLEFT == 7
UP == 8
UPRIGHT == 9

Modes == {"all", "cross", "diagonal"}

(***************************************************************************)
(* Geometry.                                                               *)
(***************************************************************************)
\* sqrt(xdist*xdist + ydist*ydist), line 336.  The point lists of this
\* model are drawn from steps of integer length (Steps, LShape), where the
\* float the code computes is that integer exactly.
SqrtOfSquares(xdist, ydist) ==
    CHOOSE r \in 0..(Abs(xdist) + Abs(ydist)) :
        r * r = xdist * xdist + ydist * ydist

_getDistance(pos1, pos2) == SqrtOfSquares(pos1[1] - pos2[1], pos1[2] - pos2[2])

\* Angles are kept in half-sector units: an even value 2k is the angle
\* k * 22.5 degrees exactly, an odd value 2k+1 is an angle strictly between
\* k * 22.5 and (k+1) * 22.5 degrees.  So 8 is 90.0, 16 is 180.0, 24 is
\* 270.0, 32 is 360.0, and every threshold of _getDirection is an even value.

\* atan(ay / ax) * (180 / pi) for ay >= 0 and ax > 0.
\* tan(22.5) = sqrt(2) - 1 and tan(67.5) = sqrt(2) + 1, so for integers
\* ay/ax < tan(22.5) iff (ay+ax)^2 < 2 ax^2, and
\* ay/ax < tan(67.5) iff (ay-ax)^2 < 2 ax^2 when ay > ax;
\* equality is impossible for integers.
AtanMagnitude(ay, ax) ==
    IF ay = 0 THEN 0
    ELSE IF (ay + ax) * (ay + ax) < 2 * ax * ax THEN 1
    ELSE IF ay < ax THEN 3
    ELSE IF ay = ax THEN 4
    ELSE IF (ay - ax) * (ay - ax) < 2 * ax * ax THEN 5
    ELSE 7

\* lines 349-350: atan(slope) * (180 / pi) for slope = y / float(x), x # 0
AtanDeg(y, x) ==
    IF (y >= 0) = (x > 0) THEN AtanMagnitude(Abs(y), Abs(x))
    ELSE -AtanMagnitude(Abs(y), Abs(x))

\* lines 353-360: the adjustment for the quadrant
QuadrantAdjust(x, y, angle) ==
    IF y >= 0 /\ x >= 0 THEN (8 - angle) + 24
    ELSE IF y >= 0 /\ x < 0 THEN -angle + 16
    ELSE IF y < 0 /\ x < 0 THEN (8 - angle) + 8
    ELSE -angle

\* lines 362-365
Normalize360(angle) == IF angle = 32 THEN 0 ELSE angle

\* lines 343-365, for x = pos[0] - origin[0] and y = pos[1] - origin[1]
AngleOfOffset(x, y) ==
    IF x = 0
    THEN IF y <= 0 THEN 8 ELSE 24
    ELSE Normalize360(QuadrantAdjust(x, y, AtanDeg(y, x)))

getAngle(origin, pos) == AngleOfOffset(pos[1] - origin[1], pos[2] - origin[2])

\* The thresholds of _getDirection in half-sector units: 22.5 is 2, 45 is 4,
\* 67.5 is 6, 90 is 8, 112.5 is 10, 135 is 12, 157.5 is 14, 180 is 16,
\* 202.5 is 18, 225 is 20, 247.5 is 22, 270 is 24, 292.5 is 26, 315 is 28,
\* 337.5 is 30.  A chain of tests that none passes returns None.

\* lines 296-311: mode 'all'
SectorAll(angle) ==
    IF angle >= 30 \/ angle < 2 THEN RIGHT
    ELSE IF angle >= 2 /\ angle < 6 THEN UPRIGHT
    ELSE IF angle >= 6 /\ angle < 10 THEN UP
    ELSE IF angle >= 10 /\ angle < 14 THEN UPLEFT
    ELSE IF angle >= 14 /\ angle < 18 THEN LEFT
    ELSE IF angle >= 18 /\ angle < 22 THEN DOWNLEFT
    ELSE IF angle >= 22 /\ angle < 26 THEN DOWN
    ELSE IF angle >= 26 /\ angle < 30 THEN DOWNRIGHT
    ELSE None

\* lines 313-320: mode 'cross'
SectorCross(angle) ==
    IF angle >= 28 \/ angle < 4 THEN RIGHT
    ELSE IF angle >= 4 /\ angle < 12 THEN UP
    ELSE IF angle >= 12 /\ angle < 20 THEN LEFT
    ELSE IF angle >= 20 /\ angle < 28 THEN DOWN
    ELSE None

\* faulty variant: the last sector of mode 'diagonal' starts after 270, not at it
SectorDiagonalOpenAt270(angle) ==
    IF angle >= 0 /\ angle < 8 THEN UPRIGHT
    ELSE IF angle >= 8 /\ angle < 16 THEN UPLEFT
    ELSE IF angle >= 16 /\ angle < 24 THEN DOWNLEFT
    ELSE IF angle > 24 THEN DOWNRIGHT
    ELSE None

\* lines 322-329: mode 'diagonal'
SectorDiagonal(angle) ==
    IF angle >= 0 /\ angle < 8 THEN UPRIGHT
    ELSE IF angle >= 8 /\ angle < 16 THEN UPLEFT
    ELSE IF angle >= 16 /\ angle < 24 THEN DOWNLEFT
    ELSE IF angle >= 24 THEN DOWNRIGHT
    ELSE None

\* lines 295-329
SectorOf(angle, m) ==
    IF m = "all" THEN SectorAll(angle)
    ELSE IF m = "cross" THEN SectorCross(angle)
    ELSE IF m = "diagonal" THEN SectorDiagonal(angle)
    ELSE None

\* The assertion of line 291 is the callers' m \in Modes.
_getDirection(pos1, pos2, m) == SectorOf(getAngle(pos1, pos2), m)

(***************************************************************************)
(* Configuration, lines 218-229.                                           *)
(***************************************************************************)
\* faulty variant: the point-to-point distance is not lowered
SetMinStrokeLenNoClamp(val) ==
    /\ pc = "idle"
    /\ _MIN_SEG_LEN' = val
    /\ _MIN_P2P_DISTANCE' = _MIN_P2P_DISTANCE
    /\ UNCHANGED <<pc, segVars, dirVars, levVars, matchVars>>

setMinStrokeLen(val) ==
    /\ pc = "idle"
    /\ _MIN_SEG_LEN' = val
    /\ _MIN_P2P_DISTANCE' = IF val < _MIN_P2P_DISTANCE THEN val
                            ELSE _MIN_P2P_DISTANCE
    /\ UNCHANGED <<pc, segVars, dirVars, levVars, matchVars>>

getMinStrokeLen == _MIN_SEG_LEN

(***************************************************************************)
(* _identifyStrokes, lines 236-286.                                        *)
(***************************************************************************)
\* lines 241-243: distances[i] for i in 0..len(points)-2
Distances(pts) ==
    [k \in 1..(Len(pts) - 1) |-> _getDistance(pts[k], pts[k + 1])]

\* lines 259-276: one pass through the body of the while loop over the
\* candidate start..cur.  w holds the locals, and w.done says the loop is
\* left.  The pass is split where a local gets its value.

\* faulty variant: a differing direction does not clear consistent
WalkCompareStaysConsistent(w, np, p2p, d) ==
    IF w.curDir = None
    THEN [w EXCEPT !.direction = d, !.curDir = d,
                   !.reads = w.reads \cup {<<w.i, w.i + np>>},
                   !.i = w.i + np, !.pointToPointDistance = 0, !.nextPoint = 0]
    ELSE IF d # w.curDir
    THEN [w EXCEPT !.direction = d,
                   !.reads = w.reads \cup {<<w.i, w.i + np>>},
                   !.nextPoint = np, !.pointToPointDistance = p2p,
                   !.done = TRUE]
    ELSE [w EXCEPT !.direction = d,
                   !.reads = w.reads \cup {<<w.i, w.i + np>>},
                   !.i = w.i + np, !.pointToPointDistance = 0, !.nextPoint = 0]

\* lines 269-276, with direction = d
WalkCompare(w, np, p2p, d) ==
    IF w.curDir = None
    THEN [w EXCEPT !.direction = d, !.curDir = d,
                   !.reads = w.reads \cup {<<w.i, w.i + np>>},
                   !.i = w.i + np, !.pointToPointDistance = 0, !.nextPoint = 0]
    ELSE IF d # w.curDir
    THEN [w EXCEPT !.direction = d,
                   !.reads = w.reads \cup {<<w.i, w.i + np>>},
                   !.nextPoint = np, !.pointToPointDistance = p2p,
                   !.consistent = FALSE, !.done = TRUE]
    ELSE [w EXCEPT !.direction = d,
                   !.reads = w.reads \cup {<<w.i, w.i + np>>},
                   !.i = w.i + np, !.pointToPointDistance = 0, !.nextPoint = 0]

\* lines 265-268, with pointToPointDistance = p2p
WalkMeasure(w, np, p2p) ==
    IF p2p < _MIN_P2P_DISTANCE
    THEN [w EXCEPT !.i = w.i + 1, !.nextPoint = np,
                   !.pointToPointDistance = p2p]
    ELSE WalkCompare(w, np, p2p,
                     _getDirection(At(points, w.i), At(points, w.i + np), mode))

\* lines 262-264, with nextPoint = np
WalkBody(w, np) ==
    IF w.i + np >= Len(points)
    THEN [w EXCEPT !.nextPoint = np, !.done = TRUE]
    ELSE WalkMeasure(w, np, w.pointToPointDistance + At(distances, w.i))

\* lines 259-261
WalkStep(cur, w) ==
    IF ~(w.i < cur + 1) THEN [w EXCEPT !.done = TRUE]
    ELSE WalkBody(w, w.nextPoint + 1)

RECURSIVE WalkSegment(_, _)
WalkSegment(cur, w) ==
    IF w.done THEN w ELSE WalkSegment(cur, WalkStep(cur, w))

\* lines 249-251 and 256-258: the locals before the while loop
WalkInit(s) ==
    [i |-> s, nextPoint |-> 0, pointToPointDistance |-> 0, curDir |-> None,
     direction |-> None, consistent |-> TRUE, reads |-> {}, done |-> FALSE]

\* the locals after the inner for loop has ended: reached says that the
\* running total reached _MIN_SEG_LEN, so that the while loop ran
CandidateLocals(cur, reached, walk) ==
    [curSegPoint |-> cur, reached |-> reached,
     curDir |-> walk.curDir, direction |-> walk.direction,
     consistent |-> walk.consistent, reads |-> walk.reads]

\* lines 252-277: the inner for loop of start index s, from curSegPoint = cur
\* with the running total segmentDist.  At the first index where the total
\* reaches _MIN_SEG_LEN the while loop runs and the for loop is left (line
\* 277); otherwise the loop variable ends at len(points)-2.
RECURSIVE ScanSegment(_, _, _)
ScanSegment(s, cur, segmentDist) ==
    IF segmentDist + At(distances, cur) >= _MIN_SEG_LEN
    THEN CandidateLocals(cur, TRUE, WalkSegment(cur, WalkInit(s)))
    ELSE IF cur + 1 < Len(points) - 1
    THEN ScanSegment(s, cur + 1, segmentDist + At(distances, cur))
    ELSE CandidateLocals(cur, FALSE, WalkInit(s))

\* lines 248-277: one candidate, from start index s
Candidate(s) == ScanSegment(s, s, 0)

\* lines 237-246: the call, up to the outer loop
IdentifyStrokesBegin(m) ==
    /\ pc = "idle"
    /\ pc' = "segmenting"
    /\ mode' = m
    /\ strokes' = <<>>
    /\ strokeSegments' = <<>>
    /\ distances' = Distances(points)
    /\ startSegPoint' = 0
    /\ UNCHANGED <<points, curSegPoint, curDir, consistent, direction, reads>>
    /\ UNCHANGED <<cfgVars, dirVars, levVars, matchVars>>

\* faulty variant: a new stroke is appended whenever a direction was resolved
AppendsStrokeAlways(dir) == dir # None

\* line 280
AppendsStroke(dir) ==
    /\ dir # None
    /\ \/ Len(strokes) = 0
       \/ Len(strokes) # 0 /\ strokes[Len(strokes)] # dir

\* faulty variant: the two indices of a new range are swapped
NewSegmentSwapped(s, cur) == <<cur, s>>

\* line 282: the range of a new stroke
NewSegment(s, cur) == <<s, cur>>

\* lines 278-285: what the iteration with locals c does to the strokes
IdentifyStrokesUpdate(c) ==
    /\ curSegPoint' = c.curSegPoint
    /\ curDir' = c.curDir
    /\ consistent' = c.consistent
    /\ direction' = c.direction
    /\ reads' = c.reads
    /\ IF ~c.consistent
       THEN UNCHANGED <<strokes, strokeSegments>>
       ELSE IF AppendsStroke(c.direction)
       THEN /\ strokes' = Append(strokes, c.direction)
            /\ strokeSegments' =
                   Append(strokeSegments,
                          NewSegment(startSegPoint, c.curSegPoint))
       ELSE IF Len(strokeSegments) # 0
       THEN /\ strokes' = strokes
            /\ strokeSegments' =
                   [strokeSegments EXCEPT ![Len(strokeSegments)][2] =
                                              c.curSegPoint]
       ELSE UNCHANGED <<strokes, strokeSegments>>

\* lines 247-285: one iteration of the outer loop
IdentifyStrokesStep ==
    /\ pc = "segmenting"
    /\ startSegPoint < Len(points) - 1
    /\ IdentifyStrokesUpdate(Candidate(startSegPoint))
    /\ startSegPoint' = startSegPoint + 1
    /\ UNCHANGED <<pc, points, mode, distances>>
    /\ UNCHANGED <<cfgVars, dirVars, levVars, matchVars>>

\* line 286: the outer loop is over
IdentifyStrokesReturn ==
    /\ pc = "segmenting"
    /\ ~(startSegPoint < Len(points) - 1)
    /\ pc' = "returned"
    /\ UNCHANGED <<segVars, cfgVars, dirVars, levVars, matchVars>>

\* lines 106-150: what the three public entry points return
getGesture == strokes
getSegments == strokeSegments
getGestureAndSegments ==
    [k \in 1..Len(strokes) |-> <<strokes[k], strokeSegments[k]>>]

(***************************************************************************)
(* levenshteinDistance, lines 188-213.                                     *)
(***************************************************************************)
\* lines 204-206: row i of the matrix is list(range(i, i + len1 + 1))
LevInitMatrix(len1, len2) ==
    [i \in 0..len2 |-> [j \in 0..len1 |-> i + j]]

\* faulty variant: a substitution costs nothing
LevCellFreeSubstitution(matrix, s1, s2, i, j) ==
    LET a == matrix[i + 1][j] + 1
        b == matrix[i][j + 1] + 1
        c == matrix[i][j]
    IN  Min({a, b, c})

\* lines 209-212: the value written to matrix[i+1][j+1]
LevCell(matrix, s1, s2, i, j) ==
    LET a == matrix[i + 1][j] + 1
        b == matrix[i][j + 1] + 1
        c == IF At(s1, j) = At(s2, i) THEN matrix[i][j] ELSE matrix[i][j] + 1
    IN  Min({a, b, c})

\* lines 207-212: the two nested loops, from cell (i, j) on
RECURSIVE LevFill(_, _, _, _, _)
LevFill(matrix, s1, s2, i, j) ==
    IF i >= Len(s2) \/ Len(s1) = 0 THEN matrix
    ELSE LET m2 == [matrix EXCEPT ![i + 1][j + 1] =
                                      LevCell(matrix, s1, s2, i, j)]
             last == j + 1 >= Len(s1)
         IN  LevFill(m2, s1, s2, IF last THEN i + 1 ELSE i,
                     IF last THEN 0 ELSE j + 1)

levenshteinDistance(s1, s2) ==
    LET len1 == Len(s1)
        len2 == Len(s2)
        matrix == LevFill(LevInitMatrix(len1, len2), s1, s2, 0, 0)
    IN  matrix[len2][len1]

(***************************************************************************)
(* findClosestMatchingGesture, lines 164-185.                              *)
(*                                                                         *)
(* A token is [type |-> "int", val |-> n], the Python int n, or            *)
(* [type |-> "str", val |-> n], the one-character Python str of the digit  *)
(* n.  A Python str is the sequence of its digits.  A result is            *)
(* [kind |-> "list", val |-> a list of ints], [kind |-> "None"], or the    *)
(* exception the call ended in.                                            *)
(***************************************************************************)
\* sys.maxsize, line 82, is 2^63 - 1; it is only ever the right-hand side
\* of smallestKey <= tolerance, and stands here as the largest integer of
\* the model checker
maxsize == 2147483647

Token(ty, n) == [type |-> ty, val |-> n]

\* ''.join(x) raises TypeError on an item that is no str
JoinRaises(x) == \E k \in 1..Len(x) : x[k].type # "str"

\* ''.join(x) for a list of one-character strs
Join(x) == [k \in 1..Len(x) |-> x[k].val]

\* int(g) for a str of digits; int('') raises ValueError
RECURSIVE ParseInt(_)
ParseInt(g) ==
    IF Len(g) = 0 THEN 0
    ELSE 10 * ParseInt(SubSeq(g, 1, Len(g) - 1)) + g[Len(g)]

MatchNone == [kind |-> "None", val |-> <<>>]
MatchRaise(e) == [kind |-> e, val |-> <<>>]

findClosestMatchingGesture(strokesArg, gestureList, tolerance) ==
    IF Len(gestureList) = 0 THEN MatchNone
    ELSE IF JoinRaises(strokesArg) THEN MatchRaise("TypeError")
    ELSE IF \E k \in 1..Len(gestureList) : JoinRaises(gestureList[k])
    THEN MatchRaise("TypeError")
    ELSE
      LET s == Join(strokesArg)
          \* lines 172-173: the joined templates, made unique
          gl == {Join(gestureList[k]) : k \in 1..Len(gestureList)}
          \* lines 174-180: distance -> the templates at that distance
          dists == [d \in {levenshteinDistance(s, g) : g \in gl} |->
                       {g \in gl : levenshteinDistance(s, g) = d}]
          smallestKey == Min(DOMAIN dists)
      IN  IF Cardinality(dists[smallestKey]) = 1 /\ smallestKey <= tolerance
          THEN LET g == CHOOSE x \in dists[smallestKey] : TRUE
               IN  IF Len(g) = 0 THEN MatchRaise("ValueError")
                   ELSE [kind |-> "list", val |-> <<ParseInt(g)>>]
          ELSE MatchNone

(***************************************************************************)
(* The callers: what is drawn and what is called.                          *)
(***************************************************************************)
\* The moves between consecutive points of a drawn list: none, two short
\* ones of length 5, and longer ones of length 30 and 60, along the axes and
\* along the 3-4-5 diagonal.
Steps == { <<0, 0>>, <<5, 0>>, <<3, -4>>, <<30, 0>>, <<0, 30>>, <<-30, 0>>,
           <<18, 24>>, <<60, 0>> }

\* The values setMinStrokeLen is given between drawings.
StrokeLens == {0, 5, 30, 60}

Grid == (-MaxCoord..MaxCoord) \X (-MaxCoord..MaxCoord)

\* the caller collects the first point
FirstPoint ==
    /\ pc = "idle"
    /\ points = <<>>
    /\ MaxPoints >= 1
    /\ points' = << <<0, 0>> >>
    /\ UNCHANGED <<pc, mode, strokes, strokeSegments, distances, startSegPoint,
                   curSegPoint, curDir, consistent, direction, reads>>
    /\ UNCHANGED <<cfgVars, dirVars, levVars, matchVars>>

\* and one more point, a step away from the last
NextPoint(step) ==
    /\ pc = "idle"
    /\ Len(points) >= 1
    /\ Len(points) < MaxPoints
    /\ points' = Append(points, <<points[Len(points)][1] + step[1],
                                  points[Len(points)][2] + step[2]>>)
    /\ UNCHANGED <<pc, mode, strokes, strokeSegments, distances, startSegPoint,
                   curSegPoint, curDir, consistent, direction, reads>>
    /\ UNCHANGED <<cfgVars, dirVars, levVars, matchVars>>

\* n steps of k pixels rightward, then m steps of k pixels downward
LShape(k, n, m) ==
    [i \in 1..(n + m + 1) |->
        IF i <= n + 1 THEN <<(i - 1) * k, 0>> ELSE <<n * k, (i - n - 1) * k>>]

LegSteps == {10, 16, 35, 70}

DrawLShape(k, n, m) ==
    /\ pc = "idle"
    /\ points = <<>>
    /\ n * k > 60
    /\ m * k > 60
    /\ points' = LShape(k, n, m)
    /\ UNCHANGED <<pc, mode, strokes, strokeSegments, distances, startSegPoint,
                   curSegPoint, curDir, consistent, direction, reads>>
    /\ UNCHANGED <<cfgVars, dirVars, levVars, matchVars>>

\* sequences over S of length at most n
SeqsUpTo(S, n) == UNION {[1..k -> S] : k \in 0..n}

LevAlphabet == {2, 4, 6}
MatchAlphabet == {2, 4, 6}
MatchTypes == {"int", "str"}
GesturesOf(ty) ==
    {[k \in 1..Len(q) |-> Token(ty, q[k])] :
        q \in SeqsUpTo(MatchAlphabet, MaxGestureLen)}
Tolerances == (0..MaxTolerance) \cup {maxsize}

\* a direct call of _getDirection, on any two points of the grid
GetDirectionCall ==
    /\ pc = "idle"
    /\ points = <<>>
    /\ pc' = "classified"
    /\ \E pos1 \in Grid, pos2 \in Grid, m \in Modes :
          /\ dirArgs' = <<pos1, pos2, m>>
          /\ dirResult' = _getDirection(pos1, pos2, m)
    /\ UNCHANGED <<cfgVars, segVars, levVars, matchVars>>

\* a direct call of levenshteinDistance, on any two token sequences
LevenshteinCall ==
    /\ pc = "idle"
    /\ pc' = "measured"
    /\ \E s1 \in SeqsUpTo(LevAlphabet, MaxLevLen),
          s2 \in SeqsUpTo(LevAlphabet, MaxLevLen) :
          /\ levArgs' = <<s1, s2>>
          /\ levResult' = levenshteinDistance(s1, s2)
    /\ UNCHANGED <<cfgVars, segVars, dirVars, matchVars>>

\* a call of findClosestMatchingGesture, on gestures of one token type
FindClosestCall ==
    /\ pc = "idle"
    /\ pc' = "matched"
    /\ \E ty \in MatchTypes :
          \E strokesArg \in GesturesOf(ty),
             gestureList \in SeqsUpTo(GesturesOf(ty), MaxTemplates),
             tolerance \in Tolerances :
               /\ matchArgs' = <<strokesArg, gestureList, tolerance>>
               /\ matchResult' =
                      findClosestMatchingGesture(strokesArg, gestureList,
                                                 tolerance)
    /\ UNCHANGED <<cfgVars, segVars, dirVars, levVars>>

\* the caller has its result and starts over; the configuration stays
Consume ==
    /\ pc \in {"returned", "classified", "measured", "matched"}
    /\ pc' = "idle"
    /\ points' = <<>>
    /\ mode' = "all"
    /\ strokes' = <<>>
    /\ strokeSegments' = <<>>
    /\ distances' = <<>>
    /\ startSegPoint' = 0
    /\ curSegPoint' = None
    /\ curDir' = None
    /\ consistent' = TRUE
    /\ direction' = None
    /\ reads' = {}
    /\ dirArgs' = <<>>
    /\ dirResult' = None
    /\ levArgs' = <<>>
    /\ levResult' = None
    /\ matchArgs' = <<>>
    /\ matchResult' = MatchNone
    /\ UNCHANGED cfgVars

Init ==
    /\ _MIN_SEG_LEN = 60
    /\ _MIN_P2P_DISTANCE = 10
    /\ pc = "idle"
    /\ points = <<>>
    /\ mode = "all"
    /\ strokes = <<>>
    /\ strokeSegments = <<>>
    /\ distances = <<>>
    /\ startSegPoint = 0
    /\ curSegPoint = None
    /\ curDir = None
    /\ consistent = TRUE
    /\ direction = None
    /\ reads = {}
    /\ dirArgs = <<>>
    /\ dirResult = None
    /\ levArgs = <<>>
    /\ levResult = None
    /\ matchArgs = <<>>
    /\ matchResult = MatchNone

\* Segmentation of drawn point lists under every configuration that
\* setMinStrokeLen reaches with the values of StrokeLens.
Next ==
    \/ \E val \in StrokeLens : setMinStrokeLen(val)
    \/ FirstPoint
    \/ \E step \in Steps : NextPoint(step)
    \/ \E m \in Modes : IdentifyStrokesBegin(m)
    \/ IdentifyStrokesStep
    \/ IdentifyStrokesReturn
    \/ Consume

Spec == Init /\ [][Next]_vars

\* Direct calls of _getDirection on the grid, and segmentation of drawn
\* point lists under the default configuration.
NextDir ==
    \/ GetDirectionCall
    \/ FirstPoint
    \/ \E step \in Steps : NextPoint(step)
    \/ \E m \in Modes : IdentifyStrokesBegin(m)
    \/ IdentifyStrokesStep
    \/ IdentifyStrokesReturn
    \/ Consume

SpecDir == Init /\ [][NextDir]_vars

\* The configuration alone.
NextCfg == \E val \in (-MaxVal)..MaxVal : setMinStrokeLen(val)

SpecCfg == Init /\ [][NextCfg]_vars

\* L-shapes under the default configuration, mode 'all'.
NextL ==
    \/ \E k \in LegSteps, n \in 1..MaxLegSteps, m \in 1..MaxLegSteps :
           DrawLShape(k, n, m)
    \/ IdentifyStrokesBegin("all")
    \/ IdentifyStrokesStep
    \/ IdentifyStrokesReturn
    \/ Consume

SpecL == Init /\ [][NextL]_vars

\* levenshteinDistance on token sequences.
NextLev ==
    \/ LevenshteinCall
    \/ Consume

SpecLev == Init /\ [][NextLev]_vars

\* The matcher on gestures of int tokens and of str tokens.
NextMatch ==
    \/ FindClosestCall
    \/ Consume

SpecMatch == Init /\ [][NextMatch]_vars

(***************************************************************************)
(* Properties.                                                             *)
(***************************************************************************)
\* the token set of a mode
ModeTokens(m) ==
    IF m = "all"
    THEN {DOWNLEFT, DOWN, DOWNRIGHT, LEFT, RIGHT, UPLEFT, UP, UPRIGHT}
    ELSE IF m = "cross" THEN {DOWN, LEFT, RIGHT, UP}
    ELSE {DOWNLEFT, DOWNRIGHT, UPLEFT, UPRIGHT}

\* the start index the last iteration of the outer loop processed
LastStart == startSegPoint - 1

\* the last iteration of the outer loop lengthened the latest stroke: it was
\* consistent and the latest stroke began at an earlier start index
LastIterationExtended ==
    /\ pc \in {"segmenting", "returned"}
    /\ startSegPoint > 0
    /\ consistent
    /\ Len(strokeSegments) > 0
    /\ strokeSegments[Len(strokeSegments)][1] < LastStart
    /\ strokeSegments[Len(strokeSegments)][2] = curSegPoint

\* C1: after every start index processed, and so in what getGesture
\* returns, no two consecutive direction tokens are equal, in every mode
\* and under every configuration setMinStrokeLen reaches.
C1_NoConsecutiveEqualTokens ==
    \A k \in 1..(Len(getGesture) - 1) : getGesture[k] # getGesture[k + 1]

\* C1: two strokes were emitted and a later candidate of the latest
\* stroke's direction was merged into it instead of appended.
C1_Witness ==
    /\ LastIterationExtended
    /\ Len(strokes) >= 2
    /\ direction = strokes[Len(strokes)]

\* C2: every range has start <= end and the starts of consecutive ranges
\* do not decrease, also after the latest range's end was extended.
C2_RangesOrdered ==
    /\ \A k \in 1..Len(getSegments) : getSegments[k][1] <= getSegments[k][2]
    /\ \A k \in 1..(Len(getSegments) - 1) :
           getSegments[k][1] <= getSegments[k + 1][1]

\* C2: two ranges exist, the first spanning more than one point pair, and
\* the latest one's end was extended by a later start index.
C2_Witness ==
    /\ LastIterationExtended
    /\ Len(strokeSegments) >= 2
    /\ strokeSegments[1][1] < strokeSegments[1][2]
    /\ strokeSegments[Len(strokeSegments)][1] <
           strokeSegments[Len(strokeSegments)][2]

\* the minimum number of single-token insertions, deletions and
\* substitutions that turn a into b: the reference recursive definition
RECURSIVE EditDistance(_, _)
EditDistance(a, b) ==
    IF Len(a) = 0 THEN Len(b)
    ELSE IF Len(b) = 0 THEN Len(a)
    ELSE Min({EditDistance(Tail(a), b) + 1,
              EditDistance(a, Tail(b)) + 1,
              EditDistance(Tail(a), Tail(b))
                  + (IF Head(a) = Head(b) THEN 0 ELSE 1)})

\* the int values of a gesture's tokens
TokenVals(g) == [k \in 1..Len(g) |-> g[k].val]

\* a gesture of at least one token, all of them Python ints
IsIntGesture(g) == Len(g) > 0 /\ \A k \in 1..Len(g) : g[k].type = "int"

\* the call was made with a candidate and templates of int direction tokens
MatchedOnIntTokens ==
    /\ pc = "matched"
    /\ IsIntGesture(matchArgs[1])
    /\ \A k \in 1..Len(matchArgs[2]) : IsIntGesture(matchArgs[2][k])

\* the distinct templates of the call, as int sequences
MatchTemplates == {TokenVals(matchArgs[2][k]) : k \in 1..Len(matchArgs[2])}

\* the minimum edit distance from the candidate to a template
MatchMinDistance ==
    Min({EditDistance(TokenVals(matchArgs[1]), g) : g \in MatchTemplates})

\* the distinct templates at the minimum distance
MatchBest ==
    {g \in MatchTemplates :
        EditDistance(TokenVals(matchArgs[1]), g) = MatchMinDistance}

\* C3: with int tokens, when exactly one distinct template attains the
\* minimum edit distance d, a tolerance >= d returns that template's token
\* sequence and the tolerance d-1 returns None.
C3_UniqueBestIsReturned ==
    (MatchedOnIntTokens /\ MatchTemplates # {} /\ Cardinality(MatchBest) = 1)
    => /\ matchArgs[3] >= MatchMinDistance
          => matchResult = [kind |-> "list",
                            val |-> CHOOSE g \in MatchBest : TRUE]
       /\ matchArgs[3] = MatchMinDistance - 1 => matchResult = MatchNone

\* C4: with int tokens the call never ends in an error, and a tie at the
\* minimum distance, a minimum above the tolerance and an empty template
\* list each give None.
C4_NoMatchIsNoError ==
    (pc = "matched" /\ IsIntGesture(matchArgs[1])
        /\ \A k \in 1..Len(matchArgs[2]) : IsIntGesture(matchArgs[2][k]))
    => /\ matchResult.kind \in {"list", "None"}
       /\ (\/ MatchTemplates = {}
           \/ Cardinality(MatchBest) >= 2
           \/ MatchMinDistance > matchArgs[3]) => matchResult = MatchNone

\* C5: levenshteinDistance(s1, s2) is the minimum number of single-token
\* edits; the distance to an empty sequence is the other's length, the
\* distance of a sequence to itself is 0, and the distance is symmetric.
C5_LevenshteinIsEditDistance ==
    pc = "measured"
    => /\ levResult = EditDistance(levArgs[1], levArgs[2])
       /\ Len(levArgs[1]) = 0 => levResult = Len(levArgs[2])
       /\ Len(levArgs[2]) = 0 => levResult = Len(levArgs[1])
       /\ levArgs[1] = levArgs[2] => levResult = 0
       /\ levResult = levenshteinDistance(levArgs[2], levArgs[1])

\* C5: two different sequences of three tokens, two edits apart.
C5_Witness ==
    /\ pc = "measured"
    /\ Len(levArgs[1]) = 3
    /\ Len(levArgs[2]) = 3
    /\ levResult = 2

\* C6: the point-to-point distance never exceeds the stroke length, and a
\* call with a value below the current point-to-point distance (the value
\* is the new stroke length) lowers the point-to-point distance to it.
C6_P2PClampedToStrokeLen ==
    /\ [](_MIN_P2P_DISTANCE <= getMinStrokeLen)
    /\ [][_MIN_SEG_LEN' < _MIN_P2P_DISTANCE
             => _MIN_P2P_DISTANCE' = _MIN_SEG_LEN']_vars

\* C6: a call lowered the point-to-point distance below its default.
C6_Witness ==
    /\ _MIN_P2P_DISTANCE < 10
    /\ _MIN_P2P_DISTANCE = _MIN_SEG_LEN

\* C7: _getDirection returns a token of its mode's set for every pair of
\* points, never None, and every token segmentation emits or compares
\* belongs to the set of the call's mode.
C7_DirectionInModeSet ==
    /\ pc = "classified" => dirResult \in ModeTokens(dirArgs[3])
    /\ \A k \in 1..Len(strokes) : strokes[k] \in ModeTokens(mode)
    /\ direction # None => direction \in ModeTokens(mode)

\* C7: mode 'diagonal' classified a purely vertical downward displacement.
C7_Witness ==
    /\ pc = "classified"
    /\ dirArgs[3] = "diagonal"
    /\ dirArgs[1][1] = dirArgs[2][1]
    /\ dirArgs[1][2] < dirArgs[2][2]
    /\ dirResult = DOWNRIGHT

\* the points are an L-shape of equal steps of at least 10 pixels, each leg
\* more than 60 pixels long
IsCleanLShape ==
    \E k \in LegSteps, n \in 1..MaxLegSteps, m \in 1..MaxLegSteps :
        k >= 10 /\ n * k > 60 /\ m * k > 60 /\ points = LShape(k, n, m)

\* the index of the corner point of an L-shape: the last point on the
\* rightward leg
CornerIndex ==
    CHOOSE i \in 0..(Len(points) - 1) :
        /\ At(points, i)[2] = 0
        /\ \A j \in (i + 1)..(Len(points) - 1) : At(points, j)[2] > 0

\* C8: under the defaults and mode 'all', an L-shape of equal steps of at
\* least 10 pixels, more than 60 pixels rightward and then more than 60
\* pixels downward, gives [RIGHT, DOWN] with two ranges, the first
\* starting at index 0 and the second at the corner point's index.
C8_LShapeIsRightDown ==
    (pc = "returned" /\ IsCleanLShape)
    => /\ getGesture = <<RIGHT, DOWN>>
       /\ Len(getSegments) = 2
       /\ getSegments[1][1] = 0
       /\ getSegments[2][1] = CornerIndex

\* C8: an L-shape of several steps per leg was segmented.
C8_Witness ==
    /\ pc = "returned"
    /\ IsCleanLShape
    /\ Len(points) >= 9
    /\ CornerIndex >= 4
    /\ strokes = <<RIGHT, DOWN>>

\* C9: an iteration of the outer loop changes the end of the latest stroke
\* only when its candidate resolved, consistently, that stroke's direction;
\* an iteration that resolved no direction, like an inconsistent one,
\* leaves strokes and ranges as they were.
C9_OnlySameDirectionExtends ==
    [][(pc = "segmenting" /\ startSegPoint' = startSegPoint + 1)
         => /\ (strokes' = strokes /\ strokeSegments' # strokeSegments)
                => (consistent' /\ direction' # None
                      /\ direction' = strokes[Len(strokes)])
            /\ (direction' = None \/ ~consistent')
                => (strokes' = strokes /\ strokeSegments' = strokeSegments)
      ]_vars

\* C10: every direction of a candidate is taken between two points of the
\* candidate segment, the endpoints of the pairs s..e: no index below s and
\* none above e+1 is read.
C10_ReadsWithinCandidate ==
    (pc \in {"segmenting", "returned"} /\ startSegPoint > 0)
    => \A r \in reads : LastStart <= r[1] /\ r[2] <= curSegPoint + 1

=============================================================================
